---- MODULE Spec2Model ----
(***************************************************************************)
(* Model of task1/csv_processor.py: the four CSV aggregation operations    *)
(* (extract_unique_values, count_by_columns, top_n_values,                 *)
(* values_in_date_range) and the validator they share, and of             *)
(* insert_with_retry of task3/from_flat_file.py.                           *)
(*                                                                         *)
(* Representation.  A Python str is a sequence of code points (9 = tab,    *)
(* 32 = space, 65 = "A", 66 = "B", 97 = "a", 98 = "b").  A date string     *)
(* "m/d/Y" is the sequence of its numeric fields <<m, d, Y>> and a         *)
(* timestamp string "m/d/Y H:M" is <<m, d, Y, H, M>>; strptime checks the  *)
(* number of fields and their ranges.  Python's None, as the value of a    *)
(* cell, is the one-element sequence <<-1>>, which is no string.  A row is *)
(* the list of fields csv.reader yields for one line; csv.DictReader maps  *)
(* it onto the header and gives None to the columns a short row lacks.     *)
(* A call is one behaviour: Init fixes the arguments and the file's name,  *)
(* existence and header, and the data rows appear as the reader yields     *)
(* them, one per step, up to MaxRows.                                      *)
(***************************************************************************)
EXTENDS Integers, Sequences, FiniteSets

VARIABLES op, csv_file, columns, normalize, lowercase, n, start_date, end_date,
          pc, rows, unique_values, count_data, count_result, start, end,
          results_in_range, result, error

vars == <<op, csv_file, columns, normalize, lowercase, n, start_date, end_date,
          pc, rows, unique_values, count_data, count_result, start, end,
          results_in_range, result, error>>

\* insert_with_retry: its arguments, the attempts begun, the position in the
\* loop, the departments table, what each call of to_sql did, the seconds
\* slept and the exception that left the function.
VARIABLES data, retries, delay, attempt, rpc, departments, outcomes, slept, raised

retry_vars == <<data, retries, delay, attempt, rpc, departments, outcomes, slept, raised>>

all_vars == <<vars, retry_vars>>

(* ------------------------------ bounds -------------------------------- *)

\* The longest source: the number of data rows a file holds.
MaxRows == 3

\* The largest n passed to top_n_values (the smallest is -1).
MaxN == 3

\* The largest retries passed to insert_with_retry (the smallest is -1).
MaxRetries == 3

(* ------------------------- Python values ------------------------------ *)

\* None as the value of a cell.
None == << -1 >>

NoError == [kind |-> "None", msg |-> "", args |-> <<>>]

Raise(kind, msg, args) == [kind |-> kind, msg |-> msg, args |-> args]

Min(a, b) == IF a <= b THEN a ELSE b

Max(a, b) == IF a >= b THEN a ELSE b

\* Mutant of Truthy: value is not None, which lets "" through.
Truthy_not_none(value) == value # None

\* bool(value) of a str or None: false for None and for "".
Truthy(value) == value # None /\ value # <<>>

\* Mutant of replace_space: value.strip(" "), which removes the spaces at
\* the two ends only.
RECURSIVE replace_space_ends(_)
replace_space_ends(value) ==
    IF value = <<>> THEN value
    ELSE IF Head(value) = 32 THEN replace_space_ends(Tail(value))
    ELSE IF value[Len(value)] = 32 THEN replace_space_ends(SubSeq(value, 1, Len(value) - 1))
    ELSE value

\* value.replace(" ", "")
replace_space(value) == SelectSeq(value, LAMBDA c : c # 32)

\* value.lower(), on the ASCII letters
lower(value) == [i \in 1..Len(value) |-> IF value[i] \in 65..90 THEN value[i] + 32 ELSE value[i]]

\* a < b for two str: the comparison of their code points, left to right.
RECURSIVE str_lt(_, _)
str_lt(a, b) ==
    IF b = <<>> THEN FALSE
    ELSE IF a = <<>> THEN TRUE
    ELSE IF Head(a) # Head(b) THEN Head(a) < Head(b)
    ELSE str_lt(Tail(a), Tail(b))

\* The least str of a non-empty set.
str_min(S) == CHOOSE x \in S : \A y \in S \ {x} : str_lt(x, y)

\* Mutant of sorted_values: sorted(S, reverse=True).
RECURSIVE sorted_values_desc(_)
sorted_values_desc(S) ==
    IF S = {} THEN <<>>
    ELSE LET m == str_min(S) IN sorted_values_desc(S \ {m}) \o <<m>>

\* sorted(S) of a set of str: ascending.
RECURSIVE sorted_values(_)
sorted_values(S) ==
    IF S = {} THEN <<>>
    ELSE LET m == str_min(S) IN <<m>> \o sorted_values(S \ {m})

(* --------------------------- the source ------------------------------- *)

Header == <<"LicenseType", "Breed", "ValidDate">>

\* The position of a column in the header (0 when absent).
ColumnIndex(fieldnames, column) ==
    IF \E i \in 1..Len(fieldnames) : fieldnames[i] = column
    THEN CHOOSE i \in 1..Len(fieldnames) : fieldnames[i] = column
    ELSE 0

\* row[column] of the dict csv.DictReader builds from a line's fields: the
\* field at the column's position, None when the line is too short.
Cell(row, column) ==
    LET i == ColumnIndex(Header, column)
    IN IF i >= 1 /\ i <= Len(row) THEN row[i] ELSE None

\* Values of the Breed column: "", " ", "A", "a", "A b", "a B", "\tA", "B",
\* " A".
BreedCells ==
    { <<>>, <<32>>, <<65>>, <<97>>, <<65, 32, 98>>, <<97, 32, 66>>, <<9, 65>>, <<66>>,
      <<32, 65>> }

\* Values of the LicenseType column: "M", "m ".
LicenseCells == { <<77>>, <<109, 32>> }

\* Values of the ValidDate column: "", the timestamps of the tests and of
\* the window's end, and two strings strptime rejects (a date without a
\* time, and a month 13).
DateCells ==
    { <<>>,
      <<12, 31, 2016, 23, 59>>, <<1, 4, 2017, 8, 39>>, <<2, 4, 2017, 0, 0>>,
      <<2, 4, 2017, 8, 39>>, <<2, 5, 2017, 0, 0>>,
      <<1, 4, 2017>>, <<13, 4, 2017, 8, 39>> }

\* The rows the reader may yield to each operation.  Each operation sees the
\* columns it reads vary; a one-field row is a line cut short after its
\* first field.
SourceRows(o) ==
    IF o \in {"extract_unique_values", "extract_unique_values_pandas"}
    THEN { <<(<<77>>)>> } \cup { <<(<<77>>), b, (<<1, 4, 2017, 8, 39>>)>> : b \in BreedCells }
    ELSE IF o = "top_n_values"
    THEN { <<(<<77>>)>> }
         \cup { <<(<<77>>), b, (<<1, 4, 2017, 8, 39>>)>> : b \in { <<>>, <<65>>, <<97>>, <<65, 32>>, <<66>> } }
    ELSE IF o = "count_by_columns"
    THEN { <<(<<77>>)>> }
         \cup { <<l, b, (<<1, 4, 2017, 8, 39>>)>> :
                  l \in LicenseCells, b \in { <<>>, <<65, 32, 98>>, <<97, 98>> } }
    ELSE { <<(<<77>>)>>, <<(<<77>>), (<<97, 32, 66>>), (<<1, 4, 2017, 8, 39>>)>> }
         \cup { <<(<<77>>), (<<65>>), d>> : d \in DateCells }

(* --------------------------- validation ------------------------------- *)

\* The name None passed for a column.
NoneName == "None"

\* not column or column.strip() == ""
ColumnNameEmpty(column) == column \in {NoneName, "", " "}

\* The first column of the list that fails a check, 0 when none does.
FirstBadColumn(fieldnames, required_columns) ==
    LET bad == { i \in 1..Len(required_columns) :
                    \/ ColumnNameEmpty(required_columns[i])
                    \/ ColumnIndex(fieldnames, required_columns[i]) = 0 }
    IN IF bad = {} THEN 0 ELSE CHOOSE i \in bad : \A j \in bad : i <= j

\* Mutant of validate_csv_and_columns: the test column not in
\* reader.fieldnames is left out.
validate_without_membership(file, required_columns) ==
    IF file.suffix # ".csv"
    THEN Raise("ValueError", "not a valid CSV file", <<>>)
    ELSE IF ~file.exists
    THEN Raise("FileNotFoundError", "does not exist", <<>>)
    ELSE IF file.fieldnames = <<>>
    THEN Raise("ValueError", "is empty", <<>>)
    ELSE IF \E i \in 1..Len(required_columns) : ColumnNameEmpty(required_columns[i])
    THEN Raise("ValueError", "column name cannot be empty or null", <<>>)
    ELSE NoError

\* Mutant of validate_csv_and_columns: the file is opened before its
\* extension is tested.
validate_open_first(file, required_columns) ==
    IF ~file.exists
    THEN Raise("FileNotFoundError", "does not exist", <<>>)
    ELSE IF file.suffix # ".csv"
    THEN Raise("ValueError", "not a valid CSV file", <<>>)
    ELSE IF file.fieldnames = <<>>
    THEN Raise("ValueError", "is empty", <<>>)
    ELSE LET i == FirstBadColumn(file.fieldnames, required_columns)
         IN IF i = 0 THEN NoError
            ELSE IF ColumnNameEmpty(required_columns[i])
            THEN Raise("ValueError", "column name cannot be empty or null", <<>>)
            ELSE Raise("ValueError", "column does not exist", <<required_columns[i]>>)

\* Mutant of validate_csv_and_columns: a column absent from the header
\* raises KeyError.
validate_key_error(file, required_columns) ==
    IF file.suffix # ".csv"
    THEN Raise("ValueError", "not a valid CSV file", <<>>)
    ELSE IF ~file.exists
    THEN Raise("FileNotFoundError", "does not exist", <<>>)
    ELSE IF file.fieldnames = <<>>
    THEN Raise("ValueError", "is empty", <<>>)
    ELSE LET i == FirstBadColumn(file.fieldnames, required_columns)
         IN IF i = 0 THEN NoError
            ELSE IF ColumnNameEmpty(required_columns[i])
            THEN Raise("ValueError", "column name cannot be empty or null", <<>>)
            ELSE Raise("KeyError", "column does not exist", <<required_columns[i]>>)

\* _validate_csv_and_columns: the exception it raises, NoError when it
\* returns.
validate_csv_and_columns(file, required_columns) ==
    IF file.suffix # ".csv"
    THEN Raise("ValueError", "not a valid CSV file", <<>>)
    ELSE IF ~file.exists
    THEN Raise("FileNotFoundError", "does not exist", <<>>)
    ELSE IF file.fieldnames = <<>>
    THEN Raise("ValueError", "is empty", <<>>)
    ELSE LET i == FirstBadColumn(file.fieldnames, required_columns)
         IN IF i = 0 THEN NoError
            ELSE IF ColumnNameEmpty(required_columns[i])
            THEN Raise("ValueError", "column name cannot be empty or null", <<>>)
            ELSE Raise("ValueError", "column does not exist", <<required_columns[i]>>)

(* ------------------------------ calls --------------------------------- *)

Operations ==
    {"extract_unique_values", "extract_unique_values_pandas", "count_by_columns", "top_n_values",
     "values_in_date_range"}

Files ==
    { [suffix |-> ".csv", exists |-> TRUE, fieldnames |-> Header],
      [suffix |-> ".csv", exists |-> TRUE, fieldnames |-> <<>>],
      [suffix |-> ".csv", exists |-> FALSE, fieldnames |-> <<>>],
      [suffix |-> ".txt", exists |-> TRUE, fieldnames |-> Header],
      [suffix |-> ".txt", exists |-> FALSE, fieldnames |-> <<>>] }

\* The column lists passed to each operation.
ColumnLists(o) ==
    IF o \in {"extract_unique_values", "extract_unique_values_pandas", "top_n_values"}
    THEN { <<"Breed">>, <<"">>, <<NoneName>>, <<"DogName">> }
    ELSE IF o = "count_by_columns"
    THEN { <<"Breed">>, <<"LicenseType", "Breed">>, <<"Breed", "LicenseType">>,
           <<"Breed", "">>, <<"DogName", "Breed">> }
    ELSE { <<"ValidDate">>, <<"ValidDate", "Breed">>, <<"", "Breed">>, <<"ValidDate", "DogName">> }

\* The window bounds passed to values_in_date_range: two dates, and two
\* strings strptime rejects (a 30th of February, a date followed by a time).
DateArgs == { <<1, 4, 2017>>, <<2, 4, 2017>>, <<2, 30, 2017>>, <<1, 4, 2017, 8, 39>> }

\* No call of insert_with_retry is under way.
RetryIdle ==
    /\ data = <<>>
    /\ retries = 3
    /\ delay = 5
    /\ attempt = 0
    /\ rpc = "idle"
    /\ departments = <<>>
    /\ outcomes = <<>>
    /\ slept = 0
    /\ raised = NoError

Init ==
    /\ RetryIdle
    /\ op \in Operations
    /\ csv_file \in Files
    /\ columns \in ColumnLists(op)
    /\ normalize \in (IF op = "values_in_date_range" THEN {TRUE} ELSE BOOLEAN)
    /\ lowercase \in (IF op = "values_in_date_range" THEN {FALSE} ELSE BOOLEAN)
    /\ n \in (IF op = "top_n_values" THEN -1..MaxN ELSE {5})
    /\ start_date \in (IF op = "values_in_date_range" THEN DateArgs ELSE {<<>>})
    /\ end_date \in (IF op = "values_in_date_range" THEN DateArgs ELSE {<<>>})
    /\ pc = "validate"
    /\ rows = <<>>
    /\ unique_values = {}
    /\ count_data = <<>>
    /\ count_result = <<>>
    /\ start = <<>>
    /\ end = <<>>
    /\ results_in_range = <<>>
    /\ result = <<>>
    /\ error = NoError

\* The call's first statement: _validate_csv_and_columns(csv_file, columns).
\* top_n_values validates, and count_by_columns, which it calls, validates
\* the same file and column again.
Validate ==
    /\ pc = "validate"
    /\ LET e == validate_csv_and_columns(csv_file, columns)
       IN IF e = NoError
          THEN /\ pc' = (IF op = "values_in_date_range" THEN "bounds" ELSE "scan")
               /\ error' = error
          ELSE /\ pc' = "failed"
               /\ error' = e
    /\ UNCHANGED <<op, csv_file, columns, normalize, lowercase, n, start_date, end_date,
                   rows, unique_values, count_data, count_result, start, end,
                   results_in_range, result>>
    /\ UNCHANGED retry_vars

(* ----------------------- extract_unique_values ------------------------ *)

\* The value a row adds to unique_values, given that its cell is truthy.
unique_value(value, nz, lc) ==
    LET v1 == IF nz THEN replace_space(value) ELSE value
    IN IF lc THEN lower(v1) ELSE v1

\* One iteration of the loop of extract_unique_values.
ExtractUniqueRow ==
    /\ pc = "scan"
    /\ op = "extract_unique_values"
    /\ Len(rows) < MaxRows
    /\ \E row \in SourceRows(op) :
         LET value == Cell(row, columns[1])
         IN /\ rows' = Append(rows, row)
            /\ unique_values' = IF Truthy(value)
                                THEN unique_values \cup {unique_value(value, normalize, lowercase)}
                                ELSE unique_values
    /\ UNCHANGED <<op, csv_file, columns, normalize, lowercase, n, start_date, end_date,
                   pc, count_data, count_result, start, end, results_in_range, result, error>>
    /\ UNCHANGED retry_vars

\* The reader is exhausted: return sorted(unique_values).
ExtractUniqueReturn ==
    /\ pc = "scan"
    /\ op = "extract_unique_values"
    /\ result' = sorted_values(unique_values)
    /\ pc' = "done"
    /\ UNCHANGED <<op, csv_file, columns, normalize, lowercase, n, start_date, end_date,
                   rows, unique_values, count_data, count_result, start, end,
                   results_in_range, error>>
    /\ UNCHANGED retry_vars

(* -------------------- extract_unique_values_pandas -------------------- *)

\* The cell is NaN in the frame pd.read_csv builds: an empty field, or a
\* field the line lacks.  (No value of the source is a number or one of
\* the words read_csv takes for NaN, so the column is read as strings.)
pandas_isna(value) == value \in {None, <<>>}

\* value.strip(): the whitespace at the two ends is removed.
RECURSIVE str_strip(_)
str_strip(value) ==
    IF value = <<>> THEN value
    ELSE IF Head(value) \in {9, 10, 11, 12, 13, 32} THEN str_strip(Tail(value))
    ELSE IF value[Len(value)] \in {9, 10, 11, 12, 13, 32}
    THEN str_strip(SubSeq(value, 1, Len(value) - 1))
    ELSE value

\* The value of the series for a cell that dropna() keeps:
\* .astype(str).str.strip(), then the two flags.
pandas_unique_value(value, nz, lc) ==
    LET v0 == str_strip(value)
        v1 == IF nz THEN replace_space(v0) ELSE v0
    IN IF lc THEN lower(v1) ELSE v1

\* pd.read_csv parses one more line of the file.
PandasReadRow ==
    /\ pc = "scan"
    /\ op = "extract_unique_values_pandas"
    /\ Len(rows) < MaxRows
    /\ \E row \in SourceRows(op) : rows' = Append(rows, row)
    /\ UNCHANGED <<op, csv_file, columns, normalize, lowercase, n, start_date, end_date,
                   pc, unique_values, count_data, count_result, start, end,
                   results_in_range, result, error>>
    /\ UNCHANGED retry_vars

\* The frame is read: the column's series is cleaned and
\* sorted(unique_values.unique()) is returned.
PandasReturn ==
    /\ pc = "scan"
    /\ op = "extract_unique_values_pandas"
    /\ unique_values' =
          { pandas_unique_value(Cell(rows[r], columns[1]), normalize, lowercase) :
              r \in { q \in 1..Len(rows) : ~pandas_isna(Cell(rows[q], columns[1])) } }
    /\ result' = sorted_values(unique_values')
    /\ pc' = "done"
    /\ UNCHANGED <<op, csv_file, columns, normalize, lowercase, n, start_date, end_date,
                   rows, count_data, count_result, start, end, results_in_range, error>>
    /\ UNCHANGED retry_vars

(* -------------------------- count_by_columns -------------------------- *)

\* One component of the key: the conditional expression of the generator,
\*   A if lowercase else (B if normalize else C).
key_component(value, nz, lc) ==
    IF lc THEN lower(replace_space(value))
    ELSE IF nz THEN replace_space(value)
    ELSE value

\* The key of a row: one component per column, in the order of the list.
count_key(row, group_by_columns, nz, lc) ==
    [i \in 1..Len(group_by_columns) |-> key_component(Cell(row, group_by_columns[i]), nz, lc)]

\* Building the key calls .replace on None: AttributeError.
key_raises(row, group_by_columns, nz, lc) ==
    /\ nz \/ lc
    /\ \E i \in 1..Len(group_by_columns) : Cell(row, group_by_columns[i]) = None

\* Mutant of counter_increment: count_data[key] = 1.
counter_overwrite(items, key) ==
    IF \E i \in 1..Len(items) : items[i][1] = key
    THEN [i \in 1..Len(items) |-> IF items[i][1] = key THEN <<key, 1>> ELSE items[i]]
    ELSE Append(items, <<key, 1>>)

\* count_data[key] += 1 on a Counter, whose items keep insertion order.
counter_increment(items, key) ==
    IF \E i \in 1..Len(items) : items[i][1] = key
    THEN [i \in 1..Len(items) |-> IF items[i][1] = key THEN <<key, items[i][2] + 1>> ELSE items[i]]
    ELSE Append(items, <<key, 1>>)

\* Inserts x after the items of s whose count is at least x's.
insert_by_count(s, x) ==
    LET k == Cardinality({ i \in 1..Len(s) : s[i][2] >= x[2] })
    IN SubSeq(s, 1, k) \o <<x>> \o SubSeq(s, k + 1, Len(s))

\* Mutant of sorted_by_count: the items are returned in insertion order.
sorted_by_count_unsorted(items) == items

\* sorted(items, key=lambda item: item[1], reverse=True): descending count,
\* items of equal count in their original order.
RECURSIVE sorted_by_count(_)
sorted_by_count(items) ==
    IF items = <<>> THEN <<>>
    ELSE insert_by_count(sorted_by_count(SubSeq(items, 1, Len(items) - 1)), items[Len(items)])

\* One iteration of the loop of count_by_columns (called directly, or by
\* top_n_values on [target_column]).
CountRow ==
    /\ pc = "scan"
    /\ op \in {"count_by_columns", "top_n_values"}
    /\ Len(rows) < MaxRows
    /\ \E row \in SourceRows(op) :
         /\ rows' = Append(rows, row)
         /\ IF key_raises(row, columns, normalize, lowercase)
            THEN /\ pc' = "failed"
                 /\ error' = Raise("AttributeError", "NoneType has no attribute replace", <<>>)
                 /\ count_data' = count_data
            ELSE /\ count_data' = counter_increment(count_data, count_key(row, columns, normalize, lowercase))
                 /\ UNCHANGED <<pc, error>>
    /\ UNCHANGED <<op, csv_file, columns, normalize, lowercase, n, start_date, end_date,
                   unique_values, count_result, start, end, results_in_range, result>>
    /\ UNCHANGED retry_vars

\* The reader is exhausted: count_by_columns returns the sorted dict.
CountReturn ==
    /\ pc = "scan"
    /\ op \in {"count_by_columns", "top_n_values"}
    /\ count_result' = sorted_by_count(count_data)
    /\ IF op = "count_by_columns"
       THEN /\ result' = count_result'
            /\ pc' = "done"
       ELSE /\ result' = result
            /\ pc' = "most_common"
    /\ UNCHANGED <<op, csv_file, columns, normalize, lowercase, n, start_date, end_date,
                   rows, unique_values, count_data, start, end, results_in_range, error>>
    /\ UNCHANGED retry_vars

(* ---------------------------- top_n_values ---------------------------- *)

\* Counter({k[0]: v for k, v in count_data.items()})
value_counter(count_items) ==
    [i \in 1..Len(count_items) |-> <<count_items[i][1][1], count_items[i][2]>>]

\* max(it, key=count): the first item of the greatest count.
first_max(items) ==
    items[CHOOSE i \in 1..Len(items) :
            /\ \A j \in 1..Len(items) : items[j][2] <= items[i][2]
            /\ \A j \in 1..(i - 1) : items[j][2] < items[i][2]]

\* Mutant of decorated_gt: the order rises with the position, so that of two
\* items of equal count the later one is the greater.
decorated_gt_later_first(items, i, j) ==
    \/ items[i][2] > items[j][2]
    \/ items[i][2] = items[j][2] /\ i > j

\* The general case of heapq.nlargest: each item is decorated as
\* (count, order, item), order falling from 0 with the position, and the k
\* greatest decorated items are returned in descending order.  i is before
\* j when its decorated item is the greater one.
decorated_gt(items, i, j) ==
    \/ items[i][2] > items[j][2]
    \/ items[i][2] = items[j][2] /\ (0 - i) > (0 - j)

\* The positions of the k greatest decorated items, greatest first.
nlargest_general(items, k) ==
    LET rank(i) == Cardinality({ j \in 1..Len(items) : decorated_gt(items, j, i) }) + 1
        kept == { i \in 1..Len(items) : rank(i) <= k }
    IN [r \in 1..Cardinality(kept) |-> items[CHOOSE i \in kept : rank(i) = r]]

\* Mutant of most_common: for k = 1 the last item of the greatest count.
most_common_last_max(items, k) ==
    IF k = 1
    THEN IF items = <<>> THEN <<>>
         ELSE <<items[CHOOSE i \in 1..Len(items) :
                         /\ \A j \in 1..Len(items) : items[j][2] <= items[i][2]
                         /\ \A j \in (i + 1)..Len(items) : items[j][2] < items[i][2]]>>
    ELSE IF k >= Len(items)
    THEN SubSeq(sorted_by_count(items), 1, Min(k, Len(items)))
    ELSE IF k <= 0 THEN <<>>
    ELSE nlargest_general(items, k)

\* Mutant of most_common: sorted(...)[:k] for every k, a negative k dropping
\* the last -k items.
most_common_slice(items, k) ==
    SubSeq(sorted_by_count(items), 1,
           IF k < 0 THEN Max(Len(items) + k, 0) ELSE Min(k, Len(items)))

\* heapq.nlargest(k, items, key=itemgetter(1)), which Counter.most_common(k)
\* returns: max() for k = 1, sorted(...)[:k] for k >= len(items), the heap
\* selection otherwise (which keeps nothing for k <= 0).
most_common(items, k) ==
    IF k = 1
    THEN IF items = <<>> THEN <<>> ELSE <<first_max(items)>>
    ELSE IF k >= Len(items)
    THEN SubSeq(sorted_by_count(items), 1, Min(k, Len(items)))
    ELSE IF k <= 0 THEN <<>>
    ELSE nlargest_general(items, k)

\* count_by_columns has returned: collapse the keys and take the n most
\* common.
TopNReturn ==
    /\ pc = "most_common"
    /\ op = "top_n_values"
    /\ result' = most_common(value_counter(count_result), n)
    /\ pc' = "done"
    /\ UNCHANGED <<op, csv_file, columns, normalize, lowercase, n, start_date, end_date,
                   rows, unique_values, count_data, count_result, start, end,
                   results_in_range, error>>
    /\ UNCHANGED retry_vars

(* ------------------------ values_in_date_range ------------------------ *)

IsLeap(y) == (y % 4 = 0 /\ y % 100 # 0) \/ y % 400 = 0

DaysInMonth(m, y) ==
    IF m = 2 THEN (IF IsLeap(y) THEN 29 ELSE 28)
    ELSE IF m \in {4, 6, 9, 11} THEN 30 ELSE 31

ValidDateFields(s) ==
    /\ s[1] \in 1..12
    /\ s[3] \in 1..9999
    /\ s[2] \in 1..DaysInMonth(s[1], s[3])

\* datetime.strptime(s, "%m/%d/%Y") succeeds.
parses_date(s) == Len(s) = 3 /\ ValidDateFields(s)

\* datetime.strptime(s, "%m/%d/%Y %H:%M") succeeds.
parses_timestamp(s) == Len(s) = 5 /\ ValidDateFields(s) /\ s[4] \in 0..23 /\ s[5] \in 0..59

\* The datetime strptime returns, as <<year, month, day, hour, minute>>: a
\* date without a time is at 00:00.
strptime(s) == <<s[3], s[1], s[2], IF Len(s) >= 4 THEN s[4] ELSE 0, IF Len(s) >= 5 THEN s[5] ELSE 0>>

\* a <= b for two datetimes.
RECURSIVE datetime_le(_, _)
datetime_le(a, b) ==
    IF a = <<>> THEN TRUE
    ELSE IF Head(a) # Head(b) THEN Head(a) < Head(b)
    ELSE datetime_le(Tail(a), Tail(b))

\* start <= date_obj <= end
in_range(s, date_obj, e) == datetime_le(s, date_obj) /\ datetime_le(date_obj, e)

\* Mutant of projection: the target columns' values have their spaces
\* removed.
projection_normalized(row, date_column, target_columns) ==
    [c \in {date_column} \cup { target_columns[i] : i \in 1..Len(target_columns) } |->
        IF c = date_column THEN Cell(row, date_column) ELSE replace_space(Cell(row, c))]

\* {col: row[col] for col in target_columns} with result[date_column] = date_value
projection(row, date_column, target_columns) ==
    [c \in {date_column} \cup { target_columns[i] : i \in 1..Len(target_columns) } |->
        IF c = date_column THEN Cell(row, date_column) ELSE Cell(row, c)]

\* The file is open: parse the two bounds of the window.
DateBounds ==
    /\ pc = "bounds"
    /\ op = "values_in_date_range"
    /\ IF parses_date(start_date) /\ parses_date(end_date)
       THEN /\ start' = strptime(start_date)
            /\ end' = strptime(end_date)
            /\ pc' = "scan"
            /\ error' = error
       ELSE /\ pc' = "failed"
            /\ error' = Raise("ValueError", "does not match format",
                              <<IF parses_date(start_date) THEN end_date ELSE start_date>>)
            /\ UNCHANGED <<start, end>>
    /\ UNCHANGED <<op, csv_file, columns, normalize, lowercase, n, start_date, end_date,
                   rows, unique_values, count_data, count_result, results_in_range, result>>
    /\ UNCHANGED retry_vars

\* One iteration of the loop of values_in_date_range.
DateRow ==
    /\ pc = "scan"
    /\ op = "values_in_date_range"
    /\ Len(rows) < MaxRows
    /\ \E row \in SourceRows(op) :
         LET date_value == Cell(row, columns[1])
         IN /\ rows' = Append(rows, row)
            /\ IF ~Truthy(date_value)
               THEN UNCHANGED <<pc, error, results_in_range>>
               ELSE IF ~parses_timestamp(date_value)
               THEN /\ pc' = "failed"
                    /\ error' = Raise("ValueError", "Invalid date format in column",
                                      <<columns[1], date_value>>)
                    /\ results_in_range' = results_in_range
               ELSE /\ results_in_range' =
                         IF in_range(start, strptime(date_value), end)
                         THEN Append(results_in_range, projection(row, columns[1], Tail(columns)))
                         ELSE results_in_range
                    /\ UNCHANGED <<pc, error>>
    /\ UNCHANGED <<op, csv_file, columns, normalize, lowercase, n, start_date, end_date,
                   unique_values, count_data, count_result, start, end, result>>
    /\ UNCHANGED retry_vars

\* The reader is exhausted: return results_in_range.
DateReturn ==
    /\ pc = "scan"
    /\ op = "values_in_date_range"
    /\ result' = results_in_range
    /\ pc' = "done"
    /\ UNCHANGED <<op, csv_file, columns, normalize, lowercase, n, start_date, end_date,
                   rows, unique_values, count_data, count_result, start, end,
                   results_in_range, error>>
    /\ UNCHANGED retry_vars

(* --------------------------- specification ---------------------------- *)

Next ==
    \/ Validate
    \/ ExtractUniqueRow
    \/ ExtractUniqueReturn
    \/ PandasReadRow
    \/ PandasReturn
    \/ CountRow
    \/ CountReturn
    \/ TopNReturn
    \/ DateBounds
    \/ DateRow
    \/ DateReturn

Spec == Init /\ [][Next]_all_vars

(* -------------------------- insert_with_retry ------------------------- *)

\* str(e) as the sequence of its words.
LockedMessage == <<"database", "is", "locked">>

\* What a call of to_sql inside the transaction may do: succeed, or raise
\* sqlite3.OperationalError for a locked database, for a locked table or
\* for a missing table, or raise the error SQLAlchemy wraps the driver's in.
Exceptions ==
    { [kind |-> "sqlite3.OperationalError", msg |-> "", args |-> LockedMessage],
      [kind |-> "sqlite3.OperationalError", msg |-> "", args |-> <<"database", "table", "is", "locked">>],
      [kind |-> "sqlite3.OperationalError", msg |-> "", args |-> <<"no", "such", "table">>],
      [kind |-> "sqlalchemy.exc.OperationalError", msg |-> "",
       args |-> <<"(sqlite3.OperationalError)", "database", "is", "locked">>] }

Inserted == [kind |-> "None", msg |-> "inserted", args |-> <<>>]

\* Mutant of is_locked: every operational error is taken for a locked
\* database.
is_locked_always(e) == TRUE

\* 'database is locked' in str(e)
is_locked(e) ==
    \E i \in 0..(Len(e.args) - Len(LockedMessage)) :
        SubSeq(e.args, i + 1, i + Len(LockedMessage)) = LockedMessage

\* Mutant of has_next_attempt: range(retries + 1).
has_next_attempt_inclusive(k, r) == k <= r

\* for attempt in range(retries): after k attempts there is one more.
has_next_attempt(k, r) == k < r

\* The exception raised when the loop ends.
RetriesExhausted ==
    Raise("Exception", "Failed to insert data after retries due to locked database.", <<>>)

\* The other variables while insert_with_retry runs.
CsvIdle ==
    /\ op = "insert_with_retry"
    /\ csv_file = [suffix |-> ".csv", exists |-> TRUE, fieldnames |-> Header]
    /\ columns = <<>>
    /\ normalize = TRUE
    /\ lowercase = FALSE
    /\ n = 5
    /\ start_date = <<>>
    /\ end_date = <<>>
    /\ pc = "idle"
    /\ rows = <<>>
    /\ unique_values = {}
    /\ count_data = <<>>
    /\ count_result = <<>>
    /\ start = <<>>
    /\ end = <<>>
    /\ results_in_range = <<>>
    /\ result = <<>>
    /\ error = NoError

RetryInit ==
    /\ CsvIdle
    /\ data \in { <<"D1">>, <<"D1", "D2">> }
    /\ retries \in -1..MaxRetries
    /\ delay \in {0, 5}
    /\ attempt = 0
    /\ rpc = "loop"
    /\ departments = <<>>
    /\ outcomes = <<>>
    /\ slept = 0
    /\ raised = NoError

\* The head of the for loop: the next attempt begins, or the loop is over
\* and the function raises.
RetryLoop ==
    /\ rpc = "loop"
    /\ IF has_next_attempt(attempt, retries)
       THEN /\ attempt' = attempt + 1
            /\ rpc' = "insert"
            /\ raised' = raised
       ELSE /\ rpc' = "raised"
            /\ raised' = RetriesExhausted
            /\ attempt' = attempt
    /\ UNCHANGED <<data, retries, delay, departments, outcomes, slept>>
    /\ UNCHANGED vars

\* to_sql appends the rows, the transaction commits and the function
\* returns.
RetryInsertReturns ==
    /\ rpc = "insert"
    /\ departments' = departments \o data
    /\ outcomes' = Append(outcomes, Inserted)
    /\ rpc' = "returned"
    /\ UNCHANGED <<data, retries, delay, attempt, slept, raised>>
    /\ UNCHANGED vars

\* to_sql raises and the transaction rolls back.  A sqlite3 operational
\* error of a locked database is logged and slept on, and the loop goes on;
\* any other one is raised again; an exception of another class is not
\* caught.
RetryInsertRaises ==
    /\ rpc = "insert"
    /\ \E e \in Exceptions :
         /\ outcomes' = Append(outcomes, e)
         /\ IF e.kind = "sqlite3.OperationalError" /\ is_locked(e)
            THEN /\ slept' = slept + delay
                 /\ rpc' = "loop"
                 /\ raised' = raised
            ELSE /\ rpc' = "raised"
                 /\ raised' = e
                 /\ slept' = slept
    /\ UNCHANGED <<data, retries, delay, attempt, departments>>
    /\ UNCHANGED vars

RetryNext ==
    \/ RetryLoop
    \/ RetryInsertReturns
    \/ RetryInsertRaises

\* The call runs on one thread and each of its steps ends: to_sql returns
\* or raises (the connection's timeout is finite) and time.sleep returns.
SpecRetry == RetryInit /\ [][RetryNext]_all_vars /\ WF_all_vars(RetryNext)

(* ------------------------------ claims -------------------------------- *)

Done(o) == op = o /\ pc = "done"

\* The calendar date of a datetime.
DateOf(dt) == SubSeq(dt, 1, 3)

\* The date of the row's timestamp lies in [start_date, end_date], both
\* taken as calendar dates.
DateInWindow(date_value) ==
    /\ datetime_le(DateOf(strptime(start_date)), DateOf(strptime(date_value)))
    /\ datetime_le(DateOf(strptime(date_value)), DateOf(strptime(end_date)))

\* The projections of the rows of rs whose date lies in the window.
RECURSIVE RowsInWindow(_)
RowsInWindow(rs) ==
    IF rs = <<>> THEN <<>>
    ELSE LET row == rs[Len(rs)]
             date_value == Cell(row, columns[1])
         IN RowsInWindow(SubSeq(rs, 1, Len(rs) - 1))
            \o (IF Truthy(date_value) /\ DateInWindow(date_value)
                THEN <<projection(row, columns[1], Tail(columns))>>
                ELSE <<>>)

\* C1: values_in_date_range returns a row if and only if the calendar date
\* of its timestamp lies in [start_date, end_date], whatever its time of
\* day: a row dated on end_date at any hour is returned.
C1_DateComponentInWindow ==
    Done("values_in_date_range") => result = RowsInWindow(rows)

\* The component the two flags, acting independently, give for a raw value.
IndependentComponent(value) ==
    LET stripped == IF normalize THEN SelectSeq(value, LAMBDA c : c # 32) ELSE value
    IN IF lowercase
       THEN [i \in 1..Len(stripped) |->
               IF stripped[i] \in 65..90 THEN stripped[i] + 32 ELSE stripped[i]]
       ELSE stripped

\* C2: in count_by_columns every key component has its spaces removed if
\* and only if normalize is true and is lowercased if and only if lowercase
\* is true, for the four combinations of the flags (rows with a missing cell
\* set aside).
C2_FlagsIndependent ==
    op = "count_by_columns" /\ pc \in {"scan", "done"} =>
        \A r \in 1..Len(rows) :
            (\A i \in 1..Len(columns) : Cell(rows[r], columns[i]) # None) =>
                \E k \in 1..Len(count_data) :
                    count_data[k][1] =
                        [i \in 1..Len(columns) |-> IndependentComponent(Cell(rows[r], columns[i]))]

RECURSIVE SumCounts(_)
SumCounts(items) ==
    IF items = <<>> THEN 0 ELSE items[1][2] + SumCounts(Tail(items))

\* C3: the counts count_by_columns returns sum to the number of data rows
\* of the source, and every row's key is among the keys returned.
C3_CountsSumToRows ==
    Done("count_by_columns") =>
        /\ SumCounts(result) = Len(rows)
        /\ \A r \in 1..Len(rows) :
              \E k \in 1..Len(result) :
                  /\ result[k][1] = count_key(rows[r], columns, normalize, lowercase)
                  /\ result[k][2] >= 1

\* A returned count over a source with an empty cell, a repeated key and a
\* second key.
C3_Witness ==
    /\ Done("count_by_columns")
    /\ Len(rows) = 3
    /\ \A r \in 1..Len(rows) : Len(rows[r]) = Len(Header)
    /\ Len(result) = 2
    /\ \E r \in 1..Len(rows) : Cell(rows[r], columns[1]) = <<>>

\* The cell of a row for the i-th grouping column is empty or missing.
EmptyOrMissing(row, i) == Cell(row, columns[i]) \in {<<>>, None}

\* C4: in count_by_columns a row with an empty or missing cell for a
\* grouping column does not fail the call and is counted under a key with
\* the empty string at that column's position.
C4_EmptyOrMissingCounted ==
    op = "count_by_columns" /\ pc \in {"scan", "done", "failed"} =>
        \A r \in 1..Len(rows) :
            (\E i \in 1..Len(columns) : EmptyOrMissing(rows[r], i)) =>
                /\ error = NoError
                /\ \E k \in 1..Len(count_data) :
                      /\ Len(count_data[k][1]) = Len(columns)
                      /\ \A i \in 1..Len(columns) :
                            IF EmptyOrMissing(rows[r], i)
                            THEN count_data[k][1][i] = <<>>
                            ELSE count_data[k][1][i] =
                                    key_component(Cell(rows[r], columns[i]), normalize, lowercase)

\* C5: extract_unique_values never returns the empty string: neither an
\* empty or missing cell nor a value that is empty once normalized
\* contributes to the result.
C5_NeverEmptyString ==
    Done("extract_unique_values") => \A i \in 1..Len(result) : result[i] # <<>>

\* C6 (as stated): with normalize=true no returned value contains a
\* whitespace character of any kind (tab, line feed, vertical tab, form
\* feed, carriage return, space).
C6_NoWhitespaceWhenNormalized ==
    Done("extract_unique_values") /\ normalize =>
        \A i \in 1..Len(result) : \A j \in 1..Len(result[i]) :
            result[i][j] \notin {9, 10, 11, 12, 13, 32}

\* C6 (amended): with normalize=true no returned value contains a space
\* character; normalization removes spaces only.
C6_NoSpaceWhenNormalized ==
    Done("extract_unique_values") /\ normalize =>
        \A i \in 1..Len(result) : \A j \in 1..Len(result[i]) : result[i][j] # 32

\* A normalized result whose source holds a value with a space between two
\* letters.
C6_Witness ==
    /\ Done("extract_unique_values")
    /\ normalize
    /\ \E r \in 1..Len(rows) :
          LET value == Cell(rows[r], columns[1])
          IN Len(value) = 3 /\ value[2] = 32
    /\ \E i \in 1..Len(result) : Len(result[i]) = 2

\* C7: the sequence extract_unique_values returns is strictly ascending in
\* code-point order (so without duplicates) and holds exactly the
\* normalized/lowercased values of the column's non-empty cells.
C7_SortedDistinctExact ==
    Done("extract_unique_values") =>
        /\ \A i \in 1..(Len(result) - 1) : str_lt(result[i], result[i + 1])
        /\ { result[i] : i \in 1..Len(result) } =
              { unique_value(Cell(rows[r], columns[1]), normalize, lowercase) :
                  r \in { q \in 1..Len(rows) : Truthy(Cell(rows[q], columns[1])) } }

\* A result of two values from three non-empty cells, two of which the
\* flags make equal.
C7_Witness ==
    /\ Done("extract_unique_values")
    /\ Len(rows) = 3
    /\ \A r \in 1..Len(rows) : Truthy(Cell(rows[r], columns[1]))
    /\ Cardinality({ Cell(rows[r], columns[1]) : r \in 1..Len(rows) }) = 3
    /\ Len(result) = 2

\* C8: top_n_values returns a prefix of the ranking count_by_columns gives
\* for [column] with the same flags, each key collapsed to its value: the
\* same (value, count) pairs in the same order, at most max(n, 0) of them.
C8_TopNIsPrefixOfRanking ==
    Done("top_n_values") =>
        /\ Len(result) <= Max(n, 0)
        /\ Len(result) <= Len(count_result)
        /\ result = SubSeq(value_counter(count_result), 1, Len(result))

\* A proper prefix of two pairs.
C8_Witness ==
    /\ Done("top_n_values")
    /\ \A r \in 1..Len(rows) : Len(rows[r]) = Len(Header)
    /\ Len(result) = 2
    /\ Len(count_result) = 3

\* The keys of the rows read, for the call's columns and flags.
KeysOf(rs) == { count_key(rs[r], columns, normalize, lowercase) : r \in 1..Len(rs) }

\* C9: top_n_values returns exactly min(max(n, 0), d) pairs, d the number
\* of distinct values of the column: none for n <= 0, all d for n > d.
C9_TopNLength ==
    Done("top_n_values") => Len(result) = Min(Max(n, 0), Cardinality(KeysOf(rows)))

\* n exceeds the number of distinct values, of which there are two.
C9_Witness ==
    /\ Done("top_n_values")
    /\ \A r \in 1..Len(rows) : Len(rows[r]) = Len(Header)
    /\ Cardinality(KeysOf(rows)) = 2
    /\ n > 2
    /\ Len(result) = 2

\* The number of rows whose value for the column is v, and the first of
\* them in the scan.
CountOf(v) == Cardinality({ r \in 1..Len(rows) : count_key(rows[r], columns, normalize, lowercase)[1] = v })

FirstSeen(v) ==
    CHOOSE r \in 1..Len(rows) :
        /\ count_key(rows[r], columns, normalize, lowercase)[1] = v
        /\ \A q \in 1..(r - 1) : count_key(rows[q], columns, normalize, lowercase)[1] # v

\* v ranks before w: a greater count, or the same count and seen first.
RanksBefore(v, w) ==
    \/ CountOf(v) > CountOf(w)
    \/ CountOf(v) = CountOf(w) /\ FirstSeen(v) < FirstSeen(w)

\* C10: top_n_values returns its pairs in descending order of count, values
\* of equal count in the order the scan first met them, and a value left
\* out ranks after every value returned, also when it ties with the last
\* one returned.
C10_StableRanking ==
    Done("top_n_values") =>
        /\ \A i \in 1..Len(result) : result[i][2] = CountOf(result[i][1]) /\ result[i][2] >= 1
        /\ \A i, j \in 1..Len(result) : i < j => RanksBefore(result[i][1], result[j][1])
        /\ \A key \in KeysOf(rows) :
              (\A i \in 1..Len(result) : result[i][1] # key[1]) =>
                  \A i \in 1..Len(result) : RanksBefore(result[i][1], key[1])

\* A tie across the cut-off: a value left out has the count of the last
\* value returned.
C10_Witness ==
    /\ Done("top_n_values")
    /\ \A r \in 1..Len(rows) : Len(rows[r]) = Len(Header)
    /\ Len(result) = 2
    /\ \E key \in KeysOf(rows) :
          /\ \A i \in 1..Len(result) : result[i][1] # key[1]
          /\ CountOf(key[1]) = result[2][2]

\* The file passes the validator's three tests of the file.
FileOk == csv_file.suffix = ".csv" /\ csv_file.exists /\ csv_file.fieldnames # <<>>

\* A column name that is empty, None, or absent from the file's header.
BadColumn(column) ==
    \/ column \in {NoneName, "", " "}
    \/ \A i \in 1..Len(csv_file.fieldnames) : csv_file.fieldnames[i] # column

\* The two failures of the validator that concern a column name.
ColumnErrorMessages == {"column name cannot be empty or null", "column does not exist"}

\* C11: on a file that passes the file tests, a requested column that is
\* empty, None or absent from the header makes each operation fail with the
\* validator's column error before any data row is read: no row has been
\* read when it fails.
C11_BadColumnFailsBeforeScan ==
    FileOk /\ (\E i \in 1..Len(columns) : BadColumn(columns[i])) =>
        /\ rows = <<>>
        /\ pc \in {"validate", "failed"}
        /\ pc = "failed" => error.kind = "ValueError" /\ error.msg \in ColumnErrorMessages

\* A call failed on a column absent from the header.
C11_Witness ==
    /\ pc = "failed"
    /\ FileOk
    /\ columns[Len(columns)] = "DogName"
    /\ error.msg = "column does not exist"
    /\ rows = <<>>

\* C12: a file whose extension is not .csv makes every operation fail with
\* the extension's error, whether the file exists, whatever its header, and
\* whatever the column names: the extension is tested first.
C12_ExtensionCheckedFirst ==
    csv_file.suffix # ".csv" /\ pc # "validate" =>
        /\ pc = "failed"
        /\ error = Raise("ValueError", "not a valid CSV file", <<>>)
        /\ rows = <<>>

\* A call failed on the extension of a file that does not exist, with an
\* empty column name.
C12_Witness ==
    /\ pc = "failed"
    /\ csv_file.suffix = ".txt"
    /\ ~csv_file.exists
    /\ \E i \in 1..Len(columns) : columns[i] = ""
    /\ error.msg = "not a valid CSV file"

\* The date value of a row is non-empty and is no timestamp.
Malformed(row) ==
    LET date_value == Cell(row, columns[1])
    IN /\ date_value \notin {None, <<>>}
       /\ ~(/\ Len(date_value) = 5
            /\ date_value[1] \in 1..12
            /\ date_value[2] \in 1..DaysInMonth(date_value[1], date_value[3])
            /\ date_value[4] \in 0..23
            /\ date_value[5] \in 0..59)

\* C13: in values_in_date_range a row with an empty date value is skipped
\* without error; a row whose date value is non-empty and does not parse
\* aborts the call with an error naming the column and the raw value,
\* wherever the row is and whatever was collected before: the call fails at
\* that row, returns nothing, and fails at no other row.
C13_EmptySkippedMalformedAborts ==
    op = "values_in_date_range" /\ rows # <<>> =>
        /\ (\E r \in 1..Len(rows) : Malformed(rows[r])) =>
              /\ pc = "failed"
              /\ Malformed(rows[Len(rows)])
              /\ \A r \in 1..(Len(rows) - 1) : ~Malformed(rows[r])
              /\ error = Raise("ValueError", "Invalid date format in column",
                               <<columns[1], Cell(rows[Len(rows)], columns[1])>>)
              /\ result = <<>>
        /\ (\A r \in 1..Len(rows) : ~Malformed(rows[r])) =>
              pc \in {"scan", "done"} /\ error = NoError

\* The call aborted at its third row, after a row with an empty date and a
\* row that qualified.
C13_Witness ==
    /\ op = "values_in_date_range"
    /\ pc = "failed"
    /\ Len(rows) = 3
    /\ \E r \in 1..2 : Cell(rows[r], columns[1]) = <<>>
    /\ results_in_range # <<>>
    /\ result = <<>>

\* The validator raised.
ValidationFailed == pc = "failed" /\ rows = <<>> /\ start = <<>> /\ error.msg # "does not match format"

\* C14 (as stated): a failure on a column name is never of the kind of the
\* failure on the extension.
C14_KindsDistinct ==
    ValidationFailed /\ error.msg \in ColumnErrorMessages =>
        error.kind # validate_csv_and_columns([csv_file EXCEPT !.suffix = ".txt"], columns).kind

\* C14 (amended): the validator raises two kinds.  FileNotFoundError is the
\* kind of a file that cannot be opened and of nothing else; ValueError is
\* the kind of a wrong extension, of an empty header and of an empty, None
\* or absent column alike, and these differ in their message only.
C14_TwoKinds ==
    ValidationFailed =>
        /\ error.kind \in {"ValueError", "FileNotFoundError"}
        /\ error.kind = "FileNotFoundError" <=> (csv_file.suffix = ".csv" /\ ~csv_file.exists)
        /\ error.msg = "not a valid CSV file" <=> csv_file.suffix # ".csv"
        /\ error.msg = "is empty" <=>
              (csv_file.suffix = ".csv" /\ csv_file.exists /\ csv_file.fieldnames = <<>>)
        /\ error.msg \in ColumnErrorMessages <=> FileOk

\* The validator failed on a column absent from the header, with the kind
\* of the extension's failure.
C14_Witness ==
    /\ ValidationFailed
    /\ error.msg = "column does not exist"
    /\ error.kind = "ValueError"

\* The row's timestamp passes the code's test of the window.
Qualifies(row) ==
    LET v == Cell(row, columns[1])
        at(s) == <<s[3], s[1], s[2], IF Len(s) = 5 THEN s[4] ELSE 0, IF Len(s) = 5 THEN s[5] ELSE 0>>
    IN /\ v \notin {None, <<>>}
       /\ datetime_le(at(start_date), at(v))
       /\ datetime_le(at(v), at(end_date))

\* The rows of rs that qualify, in order.
QualifyingRows(rs) == SelectSeq(rs, Qualifies)

\* C15: values_in_date_range returns one projection per qualifying row, in
\* the order of the source; each has the date column and the target columns
\* as its keys and no other, and gives each the row's raw string.
C15_RawProjections ==
    Done("values_in_date_range") =>
        LET q == QualifyingRows(rows)
        IN /\ Len(result) = Len(q)
           /\ \A i \in 1..Len(result) :
                 /\ DOMAIN result[i] = {columns[k] : k \in 1..Len(columns)}
                 /\ \A c \in DOMAIN result[i] : result[i][c] = q[i][ColumnIndex(Header, c)]

\* Two projections with a target column, the second of a value with a space
\* and capitals, and a row left out.
C15_Witness ==
    /\ Done("values_in_date_range")
    /\ columns = <<"ValidDate", "Breed">>
    /\ Len(rows) = 3
    /\ Len(result) = 2
    /\ result[1]["Breed"] = <<65>>
    /\ result[2]["Breed"] = <<97, 32, 66>>

\* C16: the entries count_by_columns returns are in non-increasing order of
\* count.
C16_DescendingCounts ==
    Done("count_by_columns") =>
        \A i \in 1..(Len(result) - 1) : result[i][2] >= result[i + 1][2]

\* The key counted twice was met after the key counted once.
C16_Witness ==
    /\ Done("count_by_columns")
    /\ Len(result) = 2
    /\ result[1][2] = 2
    /\ result[2][2] = 1
    /\ count_data[1] = result[2]

\* What extract_unique_values returns for the rows read.
ManualUniqueValues ==
    sorted_values({ unique_value(Cell(rows[r], columns[1]), normalize, lowercase) :
                      r \in { q \in 1..Len(rows) : Truthy(Cell(rows[q], columns[1])) } })

\* C17: extract_unique_values_pandas gives, for every source, column and
\* flags, what extract_unique_values gives: the same sequence, or a failure
\* of the same kind.
C17_TwinsEquivalent ==
    /\ Done("extract_unique_values_pandas") => result = ManualUniqueValues
    /\ op = "extract_unique_values_pandas" /\ pc = "failed" =>
          error = validate_csv_and_columns(csv_file, columns)

\* The i-th call of to_sql raised sqlite3.OperationalError for a locked
\* database.
LockedAt(i) ==
    /\ outcomes[i].kind = "sqlite3.OperationalError"
    /\ \E k \in 1..(Len(outcomes[i].args) - 2) :
          <<outcomes[i].args[k], outcomes[i].args[k + 1], outcomes[i].args[k + 2]>>
              = <<"database", "is", "locked">>

Terminated == rpc \in {"returned", "raised"}

\* The safety half of C18.
C18_Bounded ==
    /\ Len(outcomes) <= Max(retries, 0)
    /\ attempt <= Max(retries, 0)
    /\ \A i \in 1..Len(outcomes) :
          outcomes[i] = Inserted =>
              /\ i = Len(outcomes)
              /\ rpc = "returned"
              /\ departments = data
              /\ \A j \in 1..(i - 1) : LockedAt(j)
    /\ rpc = "returned" => outcomes # <<>> /\ outcomes[Len(outcomes)] = Inserted
    /\ (Terminated /\ \A i \in 1..Len(outcomes) : LockedAt(i)) =>
          /\ rpc = "raised"
          /\ raised = RetriesExhausted
          /\ Len(outcomes) = Max(retries, 0)
          /\ departments = <<>>
    /\ raised = RetriesExhausted =>
          Len(outcomes) = Max(retries, 0) /\ \A i \in 1..Len(outcomes) : LockedAt(i)

\* C18: insert_with_retry terminates after at most retries attempts: it
\* returns right after the first attempt that succeeds and makes no other,
\* and when every attempt fails on a locked database it raises its failure
\* after exactly retries attempts (none when retries <= 0).
C18_TerminatesWithinRetries == [](C18_Bounded) /\ <>Terminated

\* All of three attempts failed on a locked database and the failure was
\* raised.
C18_Witness ==
    /\ rpc = "raised"
    /\ retries = 3
    /\ Len(outcomes) = 3
    /\ \A i \in 1..3 : LockedAt(i)
    /\ raised = RetriesExhausted

\* C19: a sqlite3 operational error whose message does not contain
\* 'database is locked' is raised again on the attempt where it occurs: no
\* delay is taken for it and no later attempt is made, whatever remains of
\* retries.
C19_OtherErrorReraised ==
    \A i \in 1..Len(outcomes) :
        (outcomes[i].kind = "sqlite3.OperationalError" /\ ~LockedAt(i)) =>
            /\ i = Len(outcomes)
            /\ attempt = i
            /\ rpc = "raised"
            /\ raised = outcomes[i]
            /\ slept = delay * (i - 1)
            /\ departments = <<>>

\* The second of three attempts failed on a locked table, after a first
\* that failed on a locked database and was slept on.
C19_Witness ==
    /\ rpc = "raised"
    /\ retries = 3
    /\ delay = 5
    /\ Len(outcomes) = 2
    /\ LockedAt(1)
    /\ raised.args = <<"database", "table", "is", "locked">>
    /\ slept = 5

====
